---- MODULE Spec2Model ----
(***************************************************************************)
(* IBBLA Asistencia (src/App.jsx): the attendance document, its normalizer *)
(* (ensureStateShape), the mutation handlers, the statistics derivations   *)
(* and the store that keeps the document in localStorage and pushes it,    *)
(* debounced, to the Apps Script web app.  The App component is modelled   *)
(* from its mount on, for as long as it stays mounted.                     *)
(*                                                                         *)
(* JavaScript values are tagged records: the field t is the kind of the    *)
(* value ("undefined", "null", "number", "string", "array", "object").     *)
(* An ISO-8601 timestamp string produced by new Date().toISOString() is a  *)
(* string value whose field iso is the instant: toISOString() has a fixed  *)
(* width, so the lexicographic order of two such strings is the order of   *)
(* their instants.  A date key "YYYY-MM-DD" is the number of its day, for  *)
(* the same reason.                                                        *)
(***************************************************************************)
EXTENDS Integers, Sequences, FiniteSets, TLC

VARIABLES
    state,      \* App: const [state, setState] = useState(...)
    storage,    \* localStorage[STORAGE_KEY], parsed (Null when there is no item)
    remote,     \* the web app's STATE_JSON property, parsed (Null when unset)
    sync,       \* App: sync.status
    mode,       \* SYNC_MODE
    saveTimer,  \* App: saveTimer.current, the timer set last (it may have fired)
    timers,     \* the timers set by the push effect and neither cleared nor fired
    fetch,      \* the startup GET: "none", "sent", a response, or "done"
    posts,      \* the POST requests and responses in flight
    lastPushed, \* App: lastPushedRef.current has been set (its value is never read)
    now,        \* the clock read by new Date() and Date.now()
    nmut,       \* number of setState calls made so far
    arg,        \* the input of the pure function under check
    ret         \* the value the pure function returned

vars == <<state, storage, remote, sync, mode, saveTimer, timers, fetch, posts,
          lastPushed, now, nmut, arg, ret>>

-----------------------------------------------------------------------------
(* Bounds *)

MaxTime == 3        \* the last instant the clock reaches
MaxMut == 1         \* setState calls per run
StatFechas == 5     \* date keys of the attendance logs given to the statistics
MaxRun == 3         \* mutations of a run made within the debounce delay
MaxTel == 4         \* characters of the phone texts given to normalizePhone
MaxOps == 5         \* handlers applied in a row to one document

-----------------------------------------------------------------------------
(* JavaScript values *)

Undefined == [t |-> "undefined"]
Null == [t |-> "null"]
Num(n) == [t |-> "number", v |-> n]
Str(s) == [t |-> "string", v |-> s]
Iso(n) == [t |-> "string", iso |-> n]
Arr(s) == [t |-> "array", v |-> s]
Obj(m) == [t |-> "object", v |-> m]

EmptyMap == [x \in {} |-> {}]

\* !x is false
Truthy(x) ==
    CASE x.t = "undefined" -> FALSE
      [] x.t = "null" -> FALSE
      [] x.t = "number" -> x.v # 0
      [] x.t = "string" -> IF "iso" \in DOMAIN x THEN TRUE ELSE x.v # ""
      [] OTHER -> TRUE

\* typeof x === "object"
TypeofObject(x) == x.t \in {"object", "array", "null"}

IsArray(x) == x.t = "array"

\* a > b on two truthy updatedAt values: two strings compare as strings, two
\* numbers as numbers, and a number against a timestamp string compares
\* against NaN, which is false.
JsGreater(a, b) ==
    CASE a.t = "string" /\ b.t = "string" -> a.iso > b.iso
      [] a.t = "number" /\ b.t = "number" -> a.v > b.v
      [] OTHER -> FALSE

\* x || 0
OrZero(x) == IF Truthy(x) THEN x ELSE Num(0)

-----------------------------------------------------------------------------
(* The document *)

Clase(id, nombre, rango) ==
    [t |-> "object", id |-> id, nombre |-> nombre, rango |-> rango,
     docente |-> "", alumnos |-> Arr(<<>>)]

DEFAULT_CLASSES ==
    << Clase("logos", "Logos", "18-24"),
       Clase("smart", "Smart Class", "25-39"),
       Clase("moriah", "Moriah", "40-55"),
       Clase("horeb", "Horeb", "56-65"),
       Clase("sabiduria", "Sabiduria", "+66") >>

Doc(version, updatedAt, clases, asistencias) ==
    [t |-> "object", version |-> version, updatedAt |-> updatedAt,
     clases |-> clases, asistencias |-> asistencias]

\* ensureStateShape: base
BaseState(t) == Doc(Num(1), Iso(t), Arr(DEFAULT_CLASSES), Obj(EmptyMap))

Thrown == [t |-> "TypeError"]

\* ensureStateShape: s.clases.forEach(c => { if (!Array.isArray(c.alumnos)) c.alumnos = []; })
\* Reading c.alumnos of null or undefined throws; so does the assignment to a
\* property of a primitive in the strict mode of an ES module.
ClaseThrows(c) == c.t # "object"

NormalizeClase(c) == IF IsArray(c.alumnos) THEN c ELSE [c EXCEPT !.alumnos = Arr(<<>>)]

\* A normalizer that returns the default document for every input.
ensureStateShapeBase(s, t) == BaseState(t)

\* ensureStateShape(s) at clock t: the value returned, or Thrown.
ensureStateShape(s, t) ==
    IF ~Truthy(s) \/ ~TypeofObject(s)
    THEN BaseState(t)
    ELSE LET clases == IF IsArray(s.clases) THEN s.clases ELSE Arr(DEFAULT_CLASSES)
             asist == IF ~Truthy(s.asistencias) \/ ~TypeofObject(s.asistencias)
                      THEN Obj(EmptyMap) ELSE s.asistencias
             version == IF ~Truthy(s.version) THEN Num(1) ELSE s.version
             updatedAt == IF ~Truthy(s.updatedAt) THEN Iso(t) ELSE s.updatedAt
         IN IF \E i \in DOMAIN clases.v : ClaseThrows(clases.v[i])
            THEN Thrown
            ELSE Doc(version, updatedAt,
                     Arr([i \in DOMAIN clases.v |-> NormalizeClase(clases.v[i])]),
                     asist)

\* JSON.stringify(state): the text, as the tree of its members.  A member
\* whose value is undefined is left out of its object; an undefined element
\* of an array is written as null.
JsonMembers(o, keys) == [k \in {k \in keys : o[k] # Undefined} |-> o[k]]

JsonClase(c) ==
    IF c = Undefined THEN Null
    ELSE IF c.t # "object" THEN c
    ELSE LET dropped == IF c.alumnos = Undefined THEN {"t", "alumnos"} ELSE {"t"}
         IN [k \in DOMAIN c \ dropped |-> c[k]]

JSON_stringify(d) ==
    LET withClases == IF IsArray(d.clases)
                      THEN [d EXCEPT !.clases.v = [i \in DOMAIN @ |-> JsonClase(@[i])]]
                      ELSE d
    IN [json |-> JsonMembers(withClases, {"version", "updatedAt", "clases", "asistencias"})]

\* JSON.parse(text): the object of the members written; reading a member
\* that is not there gives undefined.
Member(o, k) == IF k \in DOMAIN o THEN o[k] ELSE Undefined

ParseClase(c) ==
    IF "t" \in DOMAIN c THEN c
    ELSE [k \in DOMAIN c \cup {"t", "alumnos"} |->
            CASE k = "t" -> "object"
              [] k = "alumnos" -> Member(c, "alumnos")
              [] OTHER -> c[k]]

JSON_parse(text) ==
    LET clases == Member(text.json, "clases")
    IN Doc(Member(text.json, "version"), Member(text.json, "updatedAt"),
           IF IsArray(clases)
           THEN Arr([i \in DOMAIN clases.v |-> ParseClase(clases.v[i])])
           ELSE clases,
           Member(text.json, "asistencias"))

-----------------------------------------------------------------------------
(* The mutation handlers: each is the function given to setState, applied  *)
(* to the previous document prev when the clock reads t.  deepClone(prev)  *)
(* is prev itself: values have no identity here.                           *)

\* p.clases.find((c) => c.id === classId): the index of the class, 0 if none
FindClase(p, classId) ==
    IF \E i \in DOMAIN p.clases.v : p.clases.v[i].id = classId
    THEN CHOOSE i \in DOMAIN p.clases.v :
            /\ p.clases.v[i].id = classId
            /\ \A j \in DOMAIN p.clases.v : p.clases.v[j].id = classId => i <= j
    ELSE 0

Touch(p, t) == [p EXCEPT !.updatedAt = Iso(t)]

\* Configuracion: changeDocente
changeDocente(prev, classId, docente, t) ==
    LET i == FindClase(prev, classId)
        p == IF i # 0 THEN [prev EXCEPT !.clases.v[i].docente = docente] ELSE prev
    IN Touch(p, t)

\* Configuracion: addAlumno
addAlumno(prev, classId, alumno, t) ==
    LET i == FindClase(prev, classId)
    IN IF i = 0 THEN prev
       ELSE Touch([prev EXCEPT !.clases.v[i].alumnos.v = Append(@, alumno)], t)

\* A removal that leaves the attendance records in place.
DeleteRegistrosNone(asist, classId, alumnoId) == asist

\* removeAlumno: the loop over Object.keys(p.asistencias) with its delete
DeleteRegistros(asist, classId, alumnoId) ==
    [f \in DOMAIN asist |->
        IF classId \in DOMAIN asist[f] /\ alumnoId \in DOMAIN asist[f][classId]
        THEN [asist[f] EXCEPT ![classId] =
                 [a \in (DOMAIN asist[f][classId]) \ {alumnoId} |-> asist[f][classId][a]]]
        ELSE asist[f]]

\* Configuracion: removeAlumno
removeAlumno(prev, classId, alumnoId, t) ==
    LET i == FindClase(prev, classId)
        Keep(a) == a.id # alumnoId
    IN IF i = 0 THEN prev
       ELSE Touch([prev EXCEPT
                     !.clases.v[i].alumnos.v = SelectSeq(@, Keep),
                     !.asistencias.v = DeleteRegistros(@, classId, alumnoId)], t)

\* cls.alumnos.find((a) => a.id === alumnoId); if (alumno) alumno.telefono = telefono
SetTelefonoIn(alumnos, alumnoId, telefono) ==
    IF \E k \in DOMAIN alumnos : alumnos[k].id = alumnoId
    THEN LET k == CHOOSE k \in DOMAIN alumnos :
                    /\ alumnos[k].id = alumnoId
                    /\ \A j \in DOMAIN alumnos : alumnos[j].id = alumnoId => k <= j
         IN [alumnos EXCEPT ![k].telefono = telefono]
    ELSE alumnos

\* Configuracion: editAlumnoTelefono
editAlumnoTelefono(prev, classId, alumnoId, telefono, t) ==
    LET i == FindClase(prev, classId)
    IN IF i = 0 THEN prev
       ELSE Touch([prev EXCEPT
                     !.clases.v[i].alumnos.v = SetTelefonoIn(@, alumnoId, telefono)], t)

\* AttendanceTaker: setTelefono, on the selected class claseId
setTelefono(prev, claseId, alumnoId, telefono, t) ==
    LET i == FindClase(prev, claseId)
    IN IF i = 0 THEN prev
       ELSE Touch([prev EXCEPT
                     !.clases.v[i].alumnos.v = SetTelefonoIn(@, alumnoId, telefono)], t)

\* m[k] || {}
GetOrEmpty(m, k) == IF k \in DOMAIN m THEN m[k] ELSE EmptyMap

\* m[k] = x
Put(m, k, x) == [y \in (DOMAIN m) \cup {k} |-> IF y = k THEN x ELSE m[y]]

\* p.asistencias[fecha][claseId][alumnoId][campo] = valor, creating the path
SetRegistro(asist, fecha, claseId, alumnoId, campo, valor) ==
    LET porClase == GetOrEmpty(asist, fecha)
        porAlumno == GetOrEmpty(porClase, claseId)
        reg == GetOrEmpty(porAlumno, alumnoId)
    IN Put(asist, fecha, Put(porClase, claseId, Put(porAlumno, alumnoId, Put(reg, campo, valor))))

\* AttendanceTaker: togglePresente, on the selected date and class
togglePresente(prev, fecha, claseId, alumnoId, presente, t) ==
    Touch([prev EXCEPT !.asistencias.v =
              SetRegistro(@, fecha, claseId, alumnoId, "presente", presente)], t)

\* AttendanceTaker: setNota, on the selected date and class
setNota(prev, fecha, claseId, alumnoId, nota, t) ==
    Touch([prev EXCEPT !.asistencias.v =
              SetRegistro(@, fecha, claseId, alumnoId, "nota", nota)], t)

-----------------------------------------------------------------------------
(* Statistics per person (StatsByPerson) *)

\* Object.keys(state.asistencias).sort(): the date keys in ascending order
RECURSIVE SortedKeys(_)
SortedKeys(S) ==
    IF S = {} THEN <<>>
    ELSE LET m == CHOOSE x \in S : \A y \in S : y <= x
         IN Append(SortedKeys(S \ {m}), m)

\* idx[a.id] = {...}: one entry per person id, the last class that has the id
\* wins; Object.values(idx) lists the ids in the order they were first set.
PersonaDe(c, a) ==
    [alumnoId |-> a.id, nombre |-> a.nombre, telefono |-> a.telefono,
     clase |-> c.nombre, docente |-> c.docente, classId |-> c.id]

RECURSIVE IdxAlumnos(_, _, _, _)
IdxAlumnos(c, alumnos, k, idx) ==
    IF k > Len(alumnos) THEN idx
    ELSE LET a == alumnos[k]
             seen == \E n \in DOMAIN idx : idx[n].alumnoId = a.id
             idx2 == IF seen
                     THEN [n \in DOMAIN idx |->
                             IF idx[n].alumnoId = a.id THEN PersonaDe(c, a) ELSE idx[n]]
                     ELSE Append(idx, PersonaDe(c, a))
         IN IdxAlumnos(c, alumnos, k + 1, idx2)

RECURSIVE IdxClases(_, _, _)
IdxClases(clases, i, idx) ==
    IF i > Len(clases) THEN idx
    ELSE IdxClases(clases, i + 1, IdxAlumnos(clases[i], clases[i].alumnos.v, 1, idx))

\* state.asistencias[f]?.[p.classId]?.[p.alumnoId]?.presente is truthy
RegPresente(asist, f, classId, alumnoId) ==
    /\ f \in DOMAIN asist
    /\ classId \in DOMAIN asist[f]
    /\ alumnoId \in DOMAIN asist[f][classId]
    /\ "presente" \in DOMAIN asist[f][classId][alumnoId]
    /\ asist[f][classId][alumnoId].presente = TRUE

\* A loop body that counts the absences one short.
StreakStepOneShort(acc, f, presente) ==
    IF presente
    THEN [presentes |-> acc.presentes + 1,
          lastAttendance |-> IF acc.lastAttendance = 0 THEN f ELSE acc.lastAttendance,
          currentAbsentStreak |-> acc.currentAbsentStreak,
          running |-> 0]
    ELSE [presentes |-> acc.presentes,
          lastAttendance |-> acc.lastAttendance,
          currentAbsentStreak |-> IF acc.lastAttendance = 0 THEN acc.running
                                  ELSE acc.currentAbsentStreak,
          running |-> acc.running + 1]

\* One pass of the loop body; lastAttendance 0 is null.
StreakStep(acc, f, presente) ==
    IF presente
    THEN [presentes |-> acc.presentes + 1,
          lastAttendance |-> IF acc.lastAttendance = 0 THEN f ELSE acc.lastAttendance,
          currentAbsentStreak |-> IF acc.running = 0 THEN 0 ELSE acc.currentAbsentStreak,
          running |-> 0]
    ELSE [presentes |-> acc.presentes,
          lastAttendance |-> acc.lastAttendance,
          currentAbsentStreak |-> IF acc.lastAttendance = 0 THEN acc.running + 1
                                  ELSE acc.currentAbsentStreak,
          running |-> acc.running + 1]

\* for (let i = fechas.length - 1; i >= 0; i--) { ... }
RECURSIVE StreakLoop(_, _, _, _, _)
StreakLoop(asist, fechas, p, i, acc) ==
    IF i < 1 THEN acc
    ELSE StreakLoop(asist, fechas, p, i - 1,
                    StreakStep(acc, fechas[i],
                               RegPresente(asist, fechas[i], p.classId, p.alumnoId)))

\* Math.round((presentes / weeksTotal) * 100)
Porcentaje(presentes, weeksTotal) ==
    IF weeksTotal # 0 THEN (200 * presentes + weeksTotal) \div (2 * weeksTotal) ELSE 0

AbandonoUmbral == 3

PorPersona(st, p) ==
    LET fechas == SortedKeys(DOMAIN st.asistencias.v)
        weeksTotal == Len(fechas)
        acc == StreakLoop(st.asistencias.v, fechas, p, Len(fechas),
                          [presentes |-> 0, lastAttendance |-> 0,
                           currentAbsentStreak |-> 0, running |-> 0])
    IN [alumnoId |-> p.alumnoId, nombre |-> p.nombre, telefono |-> p.telefono,
        clase |-> p.clase, docente |-> p.docente, classId |-> p.classId,
        presentes |-> acc.presentes, semanas |-> weeksTotal,
        porcentaje |-> Porcentaje(acc.presentes, weeksTotal),
        lastAttendance |-> acc.lastAttendance,
        currentAbsentStreak |-> acc.currentAbsentStreak,
        abandono |-> acc.currentAbsentStreak >= AbandonoUmbral]

\* a.nombre.localeCompare(b.nombre) < 0, on the names of the model
NombreRank(n) == CASE n = "Ana" -> 1 [] n = "Beto" -> 2 [] OTHER -> 3

\* the comparator of porPersona.sort: a goes before b
Antes(a, b) ==
    IF a.abandono # b.abandono THEN a.abandono
    ELSE IF a.currentAbsentStreak # b.currentAbsentStreak
         THEN a.currentAbsentStreak > b.currentAbsentStreak
         ELSE NombreRank(a.nombre) < NombreRank(b.nombre)

\* Array.prototype.sort is stable: insert each element after the last one
\* that does not go after it.
RECURSIVE SortPersonas(_)
SortPersonas(s) ==
    IF Len(s) <= 1 THEN s
    ELSE LET init == SortPersonas(SubSeq(s, 1, Len(s) - 1))
             x == s[Len(s)]
             pos == Cardinality({k \in DOMAIN init : ~Antes(x, init[k])})
         IN SubSeq(init, 1, pos) \o <<x>> \o SubSeq(init, pos + 1, Len(init))

StatsByPerson(st) ==
    LET idx == IdxClases(st.clases.v, 1, <<>>)
    IN SortPersonas([n \in DOMAIN idx |-> PorPersona(st, idx[n])])

\* StatsByDate: the inner loops over Object.keys(porClase) and
\* Object.keys(porClase[cId]), counting the records whose presente is truthy
ContarPresentes(porClase) ==
    Cardinality({ ca \in UNION { {<<c, a>> : a \in DOMAIN porClase[c]} : c \in DOMAIN porClase } :
                    /\ "presente" \in DOMAIN porClase[ca[1]][ca[2]]
                    /\ porClase[ca[1]][ca[2]].presente = TRUE })

\* Object.entries(map): the keys in the order they were inserted; the log
\* is taken to have been filled from the most recent date backward.
RECURSIVE ObjectKeys(_)
ObjectKeys(S) ==
    IF S = {} THEN <<>>
    ELSE LET m == CHOOSE x \in S : \A y \in S : y <= x
         IN <<m>> \o ObjectKeys(S \ {m})

\* A series left in the order of Object.entries.
SortSerieNone(s) == s

\* .sort((a, b) => a.fecha.localeCompare(b.fecha)): stable insertion by fecha
RECURSIVE SortSerie(_)
SortSerie(s) ==
    IF Len(s) <= 1 THEN s
    ELSE LET init == SortSerie(SubSeq(s, 1, Len(s) - 1))
             x == s[Len(s)]
             pos == Cardinality({k \in DOMAIN init : init[k].fecha <= x.fecha})
         IN SubSeq(init, 1, pos) \o <<x>> \o SubSeq(init, pos + 1, Len(init))

StatsByDate(st) ==
    LET asist == st.asistencias.v
        keys == ObjectKeys(DOMAIN asist)
    IN SortSerie([i \in DOMAIN keys |->
                    [fecha |-> keys[i], total |-> ContarPresentes(asist[keys[i]])]])

-----------------------------------------------------------------------------
(* The store: App's state, the localStorage cache and the remote web app   *)

\* The inputs of the handlers: the classes whose cards and selector entries
\* are used, the ids newId() returns, the dates picked, the text typed.
UiClases == {"logos"}
AlumnoArgs == {"a1", "a2"}
UiAlumnos == {"a1"}
Fechas == {1}
Alumno(id) == [id |-> id, nombre |-> IF id = "a1" THEN "Ana" ELSE "Beto", telefono |-> ""]
TelefonoArg == "+506 8888"
DocenteArg == "Marta"
NotaArg == "viaje"

\* The class has a card (Configuracion) and a selector entry (AttendanceTaker).
Rendered(c) == FindClase(state, c) # 0

\* The person has a row in the class's card and in the attendance list.
Listed(c, a) ==
    /\ Rendered(c)
    /\ \E k \in DOMAIN state.clases.v[FindClase(state, c)].alumnos.v :
          state.clases.v[FindClase(state, c)].alumnos.v[k].id = a

\* Documents left by earlier sessions: in the cache by this device (none on
\* its first run), in the web app by another device.
LocalSeed(t) == changeDocente(BaseState(0), "logos", DocenteArg, t)
RemoteSeed(t) ==
    togglePresente(addAlumno(BaseState(0), "logos", Alumno("a1"), 0),
                   1, "logos", "a1", TRUE, t)
InitCaches == {Null, LocalSeed(1)}
InitRemotes == {RemoteSeed(0), RemoteSeed(2)}

\* loadLocal(): the parsed item, null when there is none
loadLocal == storage

\* App, after its first render and mount effects: useState(ensureStateShape(
\* loadLocal())), the startup effect (status "syncing", GET sent), saveLocal(
\* state) and the first push timer.
Init ==
    /\ now = 2
    /\ mode \in {"local", "sheets"}
    /\ \E cache \in InitCaches :
          /\ state = ensureStateShape(cache, now)
          /\ storage = state
    /\ remote \in (IF mode = "sheets" THEN InitRemotes ELSE {Null})
    /\ sync = IF mode = "sheets" THEN "syncing" ELSE "local"
    /\ saveTimer = IF mode = "sheets" THEN state ELSE Null
    /\ timers = IF mode = "sheets" THEN {state} ELSE {}
    /\ fetch = IF mode = "sheets" THEN [st |-> "sent"] ELSE [st |-> "none"]
    /\ posts = <<>>
    /\ lastPushed = FALSE
    /\ nmut = 0
    /\ arg = Null
    /\ ret = Null

\* A cache written only when no backend is configured.
saveLocalOnlyInLocalMode(s) == IF mode = "local" THEN s ELSE storage

\* saveLocal(state): the item parses back to the document written
saveLocal(s) == s

\* A clearTimeout that cancels nothing.
clearTimeoutNothing(id) == timers

\* clearTimeout(id): the timer id is no longer pending; a timer is named by
\* the document its callback closed over.
clearTimeout(id) == timers \ {id}

\* the push effect: saveTimer.current = setTimeout(...)
SchedulePush(s) == IF mode = "sheets" THEN s ELSE Null

\* setState(s) and the two effects that depend on [state]
SetState(s) ==
    /\ state' = s
    /\ storage' = saveLocal(s)
    /\ saveTimer' = SchedulePush(s)
    /\ timers' = IF mode = "sheets" THEN clearTimeout(saveTimer) \cup {s} ELSE timers

\* new Date() returns t: the instant of the last reading, or a later one
ClockReads(t) ==
    /\ t \in {now, now + 1}
    /\ t <= MaxTime
    /\ now' = t

\* setState((prev) => ...): the handler has run on the current state at the
\* instant t its new Date() returned and produced s.
MutationUpTo(max, t, s) ==
    /\ nmut < max
    /\ nmut' = nmut + 1
    /\ ClockReads(t)
    /\ SetState(s)
    /\ UNCHANGED <<remote, sync, mode, fetch, posts, lastPushed, arg, ret>>

Mutation(t, s) == MutationUpTo(MaxMut, t, s)

\* ClassCard: the Docente input of a rendered card
ChangeDocente ==
    \E c \in UiClases, t \in {now, now + 1} :
        /\ Rendered(c)
        /\ Mutation(t, changeDocente(state, c, DocenteArg, t))

\* ClassCard: "Anadir Alumno" with a non-blank name and id newId()
AddAlumno ==
    \E c \in UiClases, a \in UiAlumnos, t \in {now, now + 1} :
        /\ Rendered(c)
        /\ ~Listed(c, a)
        /\ Mutation(t, addAlumno(state, c, Alumno(a), t))

\* ClassCard: "Eliminar" on a person's row
RemoveAlumno ==
    \E c \in UiClases, a \in UiAlumnos, t \in {now, now + 1} :
        /\ Listed(c, a)
        /\ Mutation(t, removeAlumno(state, c, a, t))

\* ClassCard: the Telefono input on a person's row
EditAlumnoTelefono ==
    \E c \in UiClases, a \in UiAlumnos, t \in {now, now + 1} :
        /\ Listed(c, a)
        /\ Mutation(t, editAlumnoTelefono(state, c, a, TelefonoArg, t))

\* AttendanceTaker: the Telefono input of a listed person of the selected class
SetTelefono ==
    \E c \in UiClases, a \in UiAlumnos, t \in {now, now + 1} :
        /\ Listed(c, a)
        /\ Mutation(t, setTelefono(state, c, a, TelefonoArg, t))

\* AttendanceTaker: the Switch of a listed person, which reports !checked
TogglePresente ==
    \E f \in Fechas, c \in UiClases, a \in UiAlumnos, t \in {now, now + 1} :
        /\ Listed(c, a)
        /\ Mutation(t, togglePresente(state, f, c, a,
                                      ~RegPresente(state.asistencias.v, f, c, a), t))

\* AttendanceTaker: the note of a listed person
SetNota ==
    \E f \in Fechas, c \in UiClases, a \in UiAlumnos, t \in {now, now + 1} :
        /\ Listed(c, a)
        /\ Mutation(t, setNota(state, f, c, a, NotaArg, t))

\* "Reiniciar datos": setState(ensureStateShape(null))
Reiniciar == \E t \in {now, now + 1} : Mutation(t, ensureStateShape(Null, t))

\* The timer callback up to its await: setSync(syncing); remoteSave(state)
\* sends the POST with the document the effect closed over.
TimerFires ==
    /\ mode = "sheets"
    /\ \E d \in timers :
          /\ posts' = Append(posts, [body |-> d, st |-> "sent"])
          /\ timers' = timers \ {d}
    /\ sync' = "syncing"
    /\ UNCHANGED <<state, storage, remote, mode, saveTimer, fetch, lastPushed, now,
                   nmut, arg, ret>>

\* doPost(e): body.updatedAt = new Date().toISOString(); setProperty('STATE_JSON', body)
doPost(body, t) == [body EXCEPT !.updatedAt = Iso(t)]

\* The web app handles one of the POSTs in flight, in any order.
ServerPost ==
    \E i \in DOMAIN posts, t \in {now, now + 1} :
        /\ posts[i].st = "sent"
        /\ ClockReads(t)
        /\ remote' = doPost(posts[i].body, t)
        /\ posts' = [posts EXCEPT ![i].st = "ok"]
        /\ UNCHANGED <<state, storage, sync, mode, saveTimer, timers, fetch, lastPushed,
                       nmut, arg, ret>>

Remove(s, i) == SubSeq(s, 1, i - 1) \o SubSeq(s, i + 1, Len(s))

\* await remoteSave(state) returns: lastPushedRef.current = Date.now(); setSync(synced)
PushDone ==
    \E i \in DOMAIN posts :
        /\ posts[i].st = "ok"
        /\ posts' = Remove(posts, i)
        /\ lastPushed' = TRUE
        /\ sync' = "synced"
        /\ UNCHANGED <<state, storage, remote, mode, saveTimer, timers, fetch, now,
                       nmut, arg, ret>>

\* remoteSave throws (the request or its response is lost, or !res.ok): setSync(idle)
PushFail ==
    \E i \in DOMAIN posts :
        /\ posts' = Remove(posts, i)
        /\ sync' = "idle"
        /\ UNCHANGED <<state, storage, remote, mode, saveTimer, timers, fetch, lastPushed,
                       now, nmut, arg, ret>>

\* doGet(e): the stored document, or the default one when nothing is stored
doGet(t) == IF remote = Null THEN BaseState(t) ELSE remote

\* The web app answers the startup GET with status 200.
ServerGet ==
    /\ fetch.st = "sent"
    /\ \E t \in {now, now + 1} :
          /\ ClockReads(t)
          /\ remote # Null => t = now
          /\ fetch' = [st |-> "resp", body |-> doGet(t)]
    /\ UNCHANGED <<state, storage, remote, sync, mode, saveTimer, timers, posts, lastPushed,
                   nmut, arg, ret>>

\* Bodies the endpoint may answer with status 200 that are no document:
\* text that is not JSON, and the JSON object {}.
InvalidJson == [t |-> "invalid-json"]
EmptyObject == Doc(Undefined, Undefined, Undefined, Undefined)
MalformedBodies == {InvalidJson, EmptyObject}

ServerGetMalformed ==
    /\ fetch.st = "sent"
    /\ \E b \in MalformedBodies : fetch' = [st |-> "resp", body |-> b]
    /\ UNCHANGED <<state, storage, remote, sync, mode, saveTimer, timers, posts, lastPushed,
                   now, nmut, arg, ret>>

\* remoteLoad() on a 200 response: res.json() throws on text that is not
\* JSON, otherwise ensureStateShape(json)
remoteLoad(body, t) == IF body = InvalidJson THEN Thrown ELSE ensureStateShape(body, t)

\* A reconciliation in which the remote document always wins.
NewerRemoteAlways(remoteDoc, local) == remoteDoc

\* Estrategia simple: remoto manda si es mas reciente
Newer(remoteDoc, local) ==
    IF JsGreater(OrZero(remoteDoc.updatedAt), OrZero(local.updatedAt))
    THEN remoteDoc ELSE local

\* The startup effect after await remoteLoad() returned a document.
LoadDone ==
    /\ fetch.st = "resp"
    /\ remoteLoad(fetch.body, now) # Thrown
    /\ fetch' = [st |-> "done"]
    /\ \E t \in {now, now + 1} :
          /\ ClockReads(t)
          /\ LET remoteDoc == remoteLoad(fetch.body, t)
                 local == ensureStateShape(loadLocal, t)
             IN SetState(ensureStateShape(Newer(remoteDoc, local), t))
    /\ sync' = "synced"
    /\ UNCHANGED <<remote, mode, posts, lastPushed, nmut, arg, ret>>

\* The startup effect's catch: fetch rejected or !res.ok (no 200 response
\* reaches the app), or res.json() threw on the body.
LoadFail ==
    /\ \/ fetch.st = "sent"
       \/ fetch.st = "resp" /\ remoteLoad(fetch.body, now) = Thrown
    /\ fetch' = [st |-> "done"]
    /\ sync' = "idle"
    /\ UNCHANGED <<state, storage, remote, mode, saveTimer, timers, posts, lastPushed,
                   now, nmut, arg, ret>>

Next ==
    \/ ChangeDocente
    \/ AddAlumno
    \/ RemoveAlumno
    \/ EditAlumnoTelefono
    \/ SetTelefono
    \/ TogglePresente
    \/ SetNota
    \/ Reiniciar
    \/ TimerFires
    \/ ServerPost
    \/ PushDone
    \/ PushFail
    \/ ServerGet
    \/ ServerGetMalformed
    \/ LoadDone
    \/ LoadFail

Spec == Init /\ [][Next]_vars

\* The store when no remoteSave throws: every push issued completes
\* successfully.
NextPushesSucceed ==
    \/ ChangeDocente
    \/ AddAlumno
    \/ RemoveAlumno
    \/ EditAlumnoTelefono
    \/ SetTelefono
    \/ TogglePresente
    \/ SetNota
    \/ Reiniciar
    \/ TimerFires
    \/ ServerPost
    \/ PushDone
    \/ ServerGet
    \/ ServerGetMalformed
    \/ LoadDone
    \/ LoadFail

SpecPushesSucceed == Init /\ [][NextPushesSucceed]_vars

\* The store in remote mode once startup has settled (the startup fetch
\* failed, the mount's push completed), where runs of mutations are made.
InitSettled ==
    /\ now = 2
    /\ mode = "sheets"
    /\ state = LocalSeed(1)
    /\ storage = state
    /\ remote = doPost(state, 2)
    /\ sync = "idle"
    /\ saveTimer = state
    /\ timers = {}
    /\ fetch = [st |-> "done"]
    /\ posts = <<>>
    /\ lastPushed = TRUE
    /\ nmut = 0
    /\ arg = Null
    /\ ret = Null

\* ClassCard: "Anadir Alumno", within a run
RunAddAlumno ==
    \E c \in UiClases, a \in UiAlumnos, t \in {now, now + 1} :
        /\ Rendered(c)
        /\ ~Listed(c, a)
        /\ MutationUpTo(MaxRun, t, addAlumno(state, c, Alumno(a), t))

\* AttendanceTaker: the Switch of a listed person, within a run
RunTogglePresente ==
    \E f \in Fechas, c \in UiClases, a \in UiAlumnos, t \in {now, now + 1} :
        /\ Listed(c, a)
        /\ MutationUpTo(MaxRun, t,
              togglePresente(state, f, c, a, ~RegPresente(state.asistencias.v, f, c, a), t))

\* AttendanceTaker: the note of a listed person, within a run
RunSetNota ==
    \E f \in Fechas, c \in UiClases, a \in UiAlumnos, t \in {now, now + 1} :
        /\ Listed(c, a)
        /\ MutationUpTo(MaxRun, t, setNota(state, f, c, a, NotaArg, t))

NextDebounce ==
    \/ RunAddAlumno
    \/ RunTogglePresente
    \/ RunSetNota
    \/ TimerFires
    \/ ServerPost
    \/ PushDone
    \/ PushFail

SpecDebounce == InitSettled /\ [][NextDebounce]_vars

-----------------------------------------------------------------------------
(* The functions on their own: a document or a raw value arg is drawn, the *)
(* function is applied to it and ret records the call.                     *)

\* The store's variables while a function is checked on its own.
StoreIdle ==
    /\ state = Null
    /\ storage = Null
    /\ remote = Null
    /\ sync = "local"
    /\ mode = "local"
    /\ saveTimer = Null
    /\ timers = {}
    /\ fetch = [st |-> "none"]
    /\ posts = <<>>
    /\ lastPushed = FALSE
    /\ nmut = 0

NoCall == [op |-> "none"]

\* What one date of a log holds for the first person of "logos" and for the
\* person of "smart": no record, present, marked absent, or a note only.
RegDe(k) ==
    CASE k = "T" -> [presente |-> TRUE]
      [] k = "F" -> [presente |-> FALSE, nota |-> NotaArg]
      [] OTHER -> [nota |-> NotaArg]

DayChoices ==
    { <<"none", "none">>, <<"T", "none">>, <<"F", "none">>, <<"nota", "none">>,
      <<"none", "T">>, <<"T", "T">> }

PorClaseDe(day, smartId) ==
    LET logos == IF day[1] = "none" THEN EmptyMap ELSE "logos" :> ("a1" :> RegDe(day[1]))
        smart == IF day[2] = "none" THEN EmptyMap ELSE "smart" :> (smartId :> RegDe(day[2]))
    IN logos @@ smart

\* The rosters: Ana (a1) in "logos"; in "smart" nobody, Beto with the id a2,
\* or Beto with the same id a1.
SmartIds == {"none", "a1", "a2"}

LogDoc(days, smartId) ==
    LET withAna == addAlumno(BaseState(0), "logos", Alumno("a1"), 0)
        withBeto == IF smartId = "none" THEN withAna
                    ELSE addAlumno(withAna, "smart",
                                   [id |-> smartId, nombre |-> "Beto", telefono |-> ""], 0)
        sid == IF smartId = "none" THEN "a2" ELSE smartId
    IN [withBeto EXCEPT !.asistencias.v = [f \in DOMAIN days |-> PorClaseDe(days[f], sid)]]

InitFn ==
    /\ StoreIdle
    /\ now = 1
    /\ \E n \in 0..StatFechas :
          \E days \in [1..n -> DayChoices], sid \in SmartIds : arg = LogDoc(days, sid)
    /\ ret = NoCall

storeVars == <<state, storage, remote, sync, mode, saveTimer, timers, fetch, posts,
               lastPushed, nmut>>

\* StatsByPerson({ state: arg })
ComputeStatsByPerson ==
    /\ ret = NoCall
    /\ ret' = [op |-> "StatsByPerson", out |-> StatsByPerson(arg)]
    /\ UNCHANGED <<storeVars, now, arg>>

\* StatsByDate({ state: arg })
ComputeStatsByDate ==
    /\ ret = NoCall
    /\ ret' = [op |-> "StatsByDate", out |-> StatsByDate(arg)]
    /\ UNCHANGED <<storeVars, now, arg>>

NextStats ==
    \/ ComputeStatsByPerson
    \/ ComputeStatsByDate

SpecStats == InitFn /\ [][NextStats]_vars

-----------------------------------------------------------------------------
(* Claims about the statistics per person, under SpecStats *)

\* The date keys of the log on which the pair (c, a) has a present=true record.
FechasPresente(asist, c, a) == {f \in DOMAIN asist : RegPresente(asist, f, c, a)}

\* The number of date keys after the most recent one with present=true (all
\* of them when there is none).
RecentAbsences(asist, c, a) ==
    LET P == FechasPresente(asist, c, a)
    IN Cardinality({f \in DOMAIN asist : \A g \in P : f > g})

\* The n most recent date keys of the log.
MostRecent(asist, n) ==
    {f \in DOMAIN asist : Cardinality({g \in DOMAIN asist : g > f}) < n}

\* C1: for every person and log, currentAbsentStreak is the number of
\* consecutive date keys, from the most recent one backward, without a
\* present=true record of the person; older dates do not change it.
C1_StreakIsRecentAbsences ==
    ret.op = "StatsByPerson" =>
        \A k \in DOMAIN ret.out :
            ret.out[k].currentAbsentStreak =
                RecentAbsences(arg.asistencias.v, ret.out[k].classId, ret.out[k].alumnoId)

\* C2: abandono (the dropout alert) is true exactly when the log has at least
\* 3 date keys and the person has no present=true record on any of the 3 most
\* recent ones.
C2_DropoutIffThreeRecentAbsences ==
    ret.op = "StatsByPerson" =>
        \A k \in DOMAIN ret.out :
            ret.out[k].abandono <=>
                /\ Cardinality(DOMAIN arg.asistencias.v) >= AbandonoUmbral
                /\ \A f \in MostRecent(arg.asistencias.v, AbandonoUmbral) :
                      ~RegPresente(arg.asistencias.v, f,
                                   ret.out[k].classId, ret.out[k].alumnoId)

\* The (classId, personId) pairs on the rosters of a document.
RosterPairs(st) ==
    UNION { { <<st.clases.v[i].id, st.clases.v[i].alumnos.v[k].id>> :
                k \in DOMAIN st.clases.v[i].alumnos.v } : i \in DOMAIN st.clases.v }

\* C8: the result has exactly one entry per (classId, personId) on the
\* rosters, also when two classes hold the same person id, and the entry's
\* presentCount counts that pair's present=true records.
C8_OneEntryPerRosterPair ==
    ret.op = "StatsByPerson" =>
        /\ Len(ret.out) = Cardinality(RosterPairs(arg))
        /\ \A pr \in RosterPairs(arg) :
              \E k \in DOMAIN ret.out :
                  /\ ret.out[k].classId = pr[1]
                  /\ ret.out[k].alumnoId = pr[2]
                  /\ ret.out[k].presentes =
                        Cardinality(FechasPresente(arg.asistencias.v, pr[1], pr[2]))
                  /\ \A j \in DOMAIN ret.out :
                        (ret.out[j].classId = pr[1] /\ ret.out[j].alumnoId = pr[2]) => j = k

\* The date keys on which the pair (c, a) has any record.
FechasConRegistroDe(asist, c, a) ==
    {f \in DOMAIN asist : c \in DOMAIN asist[f] /\ a \in DOMAIN asist[f][c]}

\* C14: for a person with no present=true record on any date,
\* currentAbsentStreak is weeksTotal, the number of date keys, whatever it is,
\* and the dropout alert is raised exactly from weeksTotal 3 on.
C14_NeverPresentStreakIsWeeksTotal ==
    ret.op = "StatsByPerson" =>
        \A k \in DOMAIN ret.out :
            FechasPresente(arg.asistencias.v, ret.out[k].classId, ret.out[k].alumnoId) = {} =>
                /\ ret.out[k].semanas = Cardinality(DOMAIN arg.asistencias.v)
                /\ ret.out[k].currentAbsentStreak = ret.out[k].semanas
                /\ ret.out[k].abandono <=> ret.out[k].semanas >= 3

\* C14 witness: three dates were recorded, with presences of the person of
\* "smart" only; the person of "logos" has no record on any of them and has
\* the alert.
C14_Witness ==
    /\ ret.op = "StatsByPerson"
    /\ Cardinality(DOMAIN arg.asistencias.v) = 3
    /\ FechasPresente(arg.asistencias.v, "smart", "a2") # {}
    /\ \E k \in DOMAIN ret.out :
          /\ ret.out[k].classId = "logos"
          /\ FechasConRegistroDe(arg.asistencias.v, "logos", ret.out[k].alumnoId) = {}
          /\ ret.out[k].currentAbsentStreak = 3
          /\ ret.out[k].abandono

\* The number of present=true records under date f, over all classes and
\* persons.
PresentesEn(asist, f) ==
    Cardinality({ca \in {"logos", "smart"} \X {"a1", "a2"} :
                    RegPresente(asist, f, ca[1], ca[2])})

\* C15: the by-date series has exactly one (date, count) entry per date key,
\* count being the number of present=true records under the date, and its
\* entries are in ascending date order.
C15_SeriePorFecha ==
    ret.op = "StatsByDate" =>
        /\ Len(ret.out) = Cardinality(DOMAIN arg.asistencias.v)
        /\ \A f \in DOMAIN arg.asistencias.v :
              \E k \in DOMAIN ret.out :
                  /\ ret.out[k].fecha = f
                  /\ ret.out[k].total = PresentesEn(arg.asistencias.v, f)
        /\ \A j, k \in DOMAIN ret.out : j < k => ret.out[j].fecha < ret.out[k].fecha

\* C15 witness: a series of three dates or more, one with two presences, one
\* with no class at all and one whose only record is a note.
C15_Witness ==
    /\ ret.op = "StatsByDate"
    /\ Len(ret.out) >= 3
    /\ \E k \in DOMAIN ret.out : ret.out[k].total = 2
    /\ \E k \in DOMAIN ret.out :
          /\ arg.asistencias.v[ret.out[k].fecha] = EmptyMap
          /\ ret.out[k].total = 0
    /\ \E k \in DOMAIN ret.out :
          /\ arg.asistencias.v[ret.out[k].fecha] = ("logos" :> ("a1" :> [nota |-> NotaArg]))
          /\ ret.out[k].total = 0

-----------------------------------------------------------------------------
(* ensureStateShape on its own, under SpecShape *)

\* The raw values given to the normalizer: values that are no object, and
\* objects whose four fields take values of the right and of the wrong kind
\* (Undefined is a missing field).
RawVersions == {Undefined, Num(0), Num(-1), Num(1), Num(2), Str("abc")}
RawUpdatedAts == {Undefined, Str(""), Iso(0), Num(5)}
RawAlumnos == {Undefined, Null, Str("x"), Arr(<<>>), Arr(<<Alumno("a1")>>)}
RawClases ==
    {Undefined, Null, Str("x"), Arr(<<>>), Arr(<<Null>>), Arr(<<Num(5)>>)}
    \cup { Arr(<<[Clase("logos", "Logos", "18-24") EXCEPT !.alumnos = al]>>) : al \in RawAlumnos }
    \cup { Arr(<<Clase("logos", "Logos", "18-24"),
                 [Clase("smart", "Smart Class", "25-39") EXCEPT !.alumnos = al]>>) :
             al \in RawAlumnos }
RawAsistencias ==
    {Undefined, Null, Num(3), Str("x"), Arr(<<>>), Obj(EmptyMap),
     Obj(1 :> ("logos" :> ("a1" :> [presente |-> TRUE])))}
RawValues ==
    {Undefined, Null, Num(0), Num(5), Str(""), Str("x")}
    \cup { Doc(v, u, c, a) : v \in RawVersions, u \in RawUpdatedAts,
                             c \in RawClases, a \in RawAsistencias }

InitShape ==
    /\ StoreIdle
    /\ now = 1
    /\ arg \in RawValues
    /\ ret = NoCall

\* ensureStateShape(arg)
CallEnsureStateShape ==
    /\ ret = NoCall
    /\ ret' = [op |-> "ensureStateShape", out |-> ensureStateShape(arg, now)]
    /\ UNCHANGED <<storeVars, now, arg>>

NextShape == CallEnsureStateShape

SpecShape == InitShape /\ [][NextShape]_vars

\* A well-formed Document: classes a sequence, attendance a mapping (any
\* non-null value whose typeof is "object", as runStaticTests accepts it),
\* version a number >= 1, updatedAt set, every roster a sequence.
WellFormed(d) ==
    /\ d.t = "object"
    /\ IsArray(d.clases)
    /\ Truthy(d.asistencias) /\ TypeofObject(d.asistencias)
    /\ d.version.t = "number"
    /\ d.version.v >= 1
    /\ Truthy(d.updatedAt)
    /\ \A i \in DOMAIN d.clases.v : IsArray(d.clases.v[i].alumnos)

\* C9: for an arbitrary input value the normalizer returns a well-formed
\* Document.
C9_NormalizedIsWellFormed ==
    ret.op = "ensureStateShape" => WellFormed(ret.out)

-----------------------------------------------------------------------------
(* The mutation handlers on their own, under SpecOps: a handler is applied *)
(* to the drawn document arg with the clock past arg's updatedAt.          *)

OpClases == {"logos", "smart", "nope"}

\* removeAlumno(classId, alumnoId) applied to arg
CallRemoveAlumno ==
    /\ ret = NoCall
    /\ \E c \in OpClases, a \in AlumnoArgs :
          ret' = [op |-> "removeAlumno", classId |-> c, alumnoId |-> a,
                  out |-> removeAlumno(arg, c, a, now)]
    /\ UNCHANGED <<storeVars, now, arg>>

\* changeDocente(classId, docente) applied to arg
CallChangeDocente ==
    /\ ret = NoCall
    /\ \E c \in OpClases :
          ret' = [op |-> "changeDocente", classId |-> c, docente |-> DocenteArg,
                  out |-> changeDocente(arg, c, DocenteArg, now)]
    /\ UNCHANGED <<storeVars, now, arg>>

\* editAlumnoTelefono(classId, alumnoId, telefono) applied to arg
CallEditAlumnoTelefono ==
    /\ ret = NoCall
    /\ \E c \in OpClases, a \in AlumnoArgs :
          ret' = [op |-> "editAlumnoTelefono", classId |-> c, alumnoId |-> a,
                  out |-> editAlumnoTelefono(arg, c, a, TelefonoArg, now)]
    /\ UNCHANGED <<storeVars, now, arg>>

\* AttendanceTaker's setTelefono(alumnoId, telefono) with claseId selected,
\* applied to arg
CallSetTelefono ==
    /\ ret = NoCall
    /\ \E c \in OpClases, a \in AlumnoArgs :
          ret' = [op |-> "setTelefono", classId |-> c, alumnoId |-> a,
                  out |-> setTelefono(arg, c, a, TelefonoArg, now)]
    /\ UNCHANGED <<storeVars, now, arg>>

\* Exportar, then Importar of the file: ensureStateShape(JSON.parse(
\* JSON.stringify(state))), on the default document or on arg
CallExportImport ==
    /\ ret = NoCall
    /\ \E d \in {BaseState(0), arg} :
          ret' = [op |-> "exportImport", in |-> d,
                  out |-> ensureStateShape(JSON_parse(JSON_stringify(d)), now)]
    /\ UNCHANGED <<storeVars, now, arg>>

NextOps ==
    \/ CallExportImport
    \/ CallRemoveAlumno
    \/ CallChangeDocente
    \/ CallEditAlumnoTelefono
    \/ CallSetTelefono

SpecOps == InitFn /\ [][NextOps]_vars

\* The record of the pair (c, a) on date f: <<TRUE, record>>, or <<FALSE>>.
RegistroDe(asist, f, c, a) ==
    IF f \in DOMAIN asist /\ c \in DOMAIN asist[f] /\ a \in DOMAIN asist[f][c]
    THEN <<TRUE, asist[f][c][a]>>
    ELSE <<FALSE>>

\* The date keys on which the pair (c, a) has a record.
FechasConRegistro(asist, c, a) == {f \in DOMAIN asist : RegistroDe(asist, f, c, a)[1]}

\* C7: removePerson on a person of the class roster cascades: the person is
\* off the roster, no date key holds a record of that (classId, personId),
\* and the records of every other pair are unchanged.
C7_RemoveCascades ==
    (ret.op = "removeAlumno" /\ <<ret.classId, ret.alumnoId>> \in RosterPairs(arg)) =>
        /\ <<ret.classId, ret.alumnoId>> \notin RosterPairs(ret.out)
        /\ FechasConRegistro(ret.out.asistencias.v, ret.classId, ret.alumnoId) = {}
        /\ DOMAIN ret.out.asistencias.v = DOMAIN arg.asistencias.v
        /\ \A f \in DOMAIN arg.asistencias.v, c \in OpClases, a \in AlumnoArgs :
              <<c, a>> # <<ret.classId, ret.alumnoId>> =>
                  RegistroDe(ret.out.asistencias.v, f, c, a)
                      = RegistroDe(arg.asistencias.v, f, c, a)

\* C7 witness: a listed person with records on three dates or more, some with
\* presence and some with a note, was removed while the person with the same
\* id in another class had records too.
C7_Witness ==
    /\ ret.op = "removeAlumno"
    /\ <<ret.classId, ret.alumnoId>> \in RosterPairs(arg)
    /\ Cardinality(FechasConRegistro(arg.asistencias.v, ret.classId, ret.alumnoId)) >= 3
    /\ FechasPresente(arg.asistencias.v, ret.classId, ret.alumnoId) # {}
    /\ \E c \in OpClases :
          /\ c # ret.classId
          /\ FechasConRegistro(arg.asistencias.v, c, ret.alumnoId) # {}
    /\ FechasConRegistro(ret.out.asistencias.v, ret.classId, ret.alumnoId) = {}

\* C10: setTeacher with a classId that is not in the document is a no-op: the
\* resulting document equals the input in every field, updatedAt included.
C10_MissingClassIsNoOp ==
    (ret.op = "changeDocente" /\ FindClase(arg, ret.classId) = 0) => ret.out = arg

\* C11: removePerson and setPersonPhone are no-ops when the target is not
\* found: when the class does not exist, or exists without a person of that
\* id, the resulting document equals the input in every field, updatedAt
\* included.
C11_MissingTargetIsNoOp ==
    (/\ ret.op \in {"removeAlumno", "editAlumnoTelefono", "setTelefono"}
     /\ <<ret.classId, ret.alumnoId>> \notin RosterPairs(arg)) => ret.out = arg

\* C16: export followed by import is a round trip: serializing a well-formed
\* document to JSON, parsing it back and normalizing it yields a document
\* equal to the original.
C16_ExportImportRoundTrip ==
    ret.op = "exportImport" => ret.out = ret.in

\* C16 witness: a document with persons in two classes and records of
\* presence and of notes on two dates or more went through the round trip.
C16_Witness ==
    /\ ret.op = "exportImport"
    /\ Cardinality(RosterPairs(ret.in)) = 2
    /\ Cardinality(DOMAIN ret.in.asistencias.v) >= 2
    /\ FechasPresente(ret.in.asistencias.v, "logos", "a1") # {}
    /\ \E f \in DOMAIN ret.in.asistencias.v :
          RegistroDe(ret.in.asistencias.v, f, "logos", "a1") = <<TRUE, [nota |-> NotaArg]>>
    /\ ret.out = ret.in

-----------------------------------------------------------------------------
(* Sequences of roster and attendance handlers, under SpecRoster: arg is   *)
(* the document, starting from the default one; ret records the last call, *)
(* the number of calls made and the ids newId() has returned.              *)

RosterClases == {"logos", "smart"}
RosterFechas == {1, 2}

\* AttendanceTaker and ClassCard list the person a under the class c of d
ListedIn(d, c, a) ==
    \E i \in DOMAIN d.clases.v :
        /\ d.clases.v[i].id = c
        /\ \E k \in DOMAIN d.clases.v[i].alumnos.v : d.clases.v[i].alumnos.v[k].id = a

InitRoster ==
    /\ StoreIdle
    /\ now = 1
    /\ arg = BaseState(0)
    /\ ret = [op |-> "none", n |-> 0, used |-> {}]

\* The call op on the pair (c, a) turned arg into d; had tells whether the
\* pair had a record on some date before the call.
RosterCall(op, c, a, d) ==
    /\ ret.n < MaxOps
    /\ arg' = d
    /\ ret' = [op |-> op, classId |-> c, alumnoId |-> a, n |-> ret.n + 1,
               used |-> ret.used \cup {a},
               had |-> FechasConRegistro(arg.asistencias.v, c, a) # {}]
    /\ UNCHANGED <<storeVars, now>>

\* "Anadir Alumno" on a class card; newId() returns an id not returned before
RosterAddAlumno ==
    \E c \in RosterClases, a \in AlumnoArgs \ ret.used :
        RosterCall("addAlumno", c, a, addAlumno(arg, c, Alumno(a), now))

\* "Eliminar" on the row of a listed person
RosterRemoveAlumno ==
    \E c \in RosterClases, a \in AlumnoArgs :
        /\ ListedIn(arg, c, a)
        /\ RosterCall("removeAlumno", c, a, removeAlumno(arg, c, a, now))

\* The Switch of a person listed under the selected class, on the date picked
RosterTogglePresente ==
    \E f \in RosterFechas, c \in RosterClases, a \in AlumnoArgs :
        /\ ListedIn(arg, c, a)
        /\ RosterCall("togglePresente", c, a,
              togglePresente(arg, f, c, a, ~RegPresente(arg.asistencias.v, f, c, a), now))

\* The note of a person listed under the selected class, on the date picked
RosterSetNota ==
    \E f \in RosterFechas, c \in RosterClases, a \in AlumnoArgs :
        /\ ListedIn(arg, c, a)
        /\ RosterCall("setNota", c, a, setNota(arg, f, c, a, NotaArg, now))

NextRoster ==
    \/ RosterAddAlumno
    \/ RosterRemoveAlumno
    \/ RosterTogglePresente
    \/ RosterSetNota

SpecRoster == InitRoster /\ [][NextRoster]_vars

\* C19: no orphan records: after any sequence of addPerson, removePerson,
\* setPresence and setNote made through the lists of the rosters, every
\* record of the document refers to a (classId, personId) on that class's
\* roster.
C19_NoOrphanRecords ==
    \A f \in DOMAIN arg.asistencias.v :
        \A c \in DOMAIN arg.asistencias.v[f] :
            \A a \in DOMAIN arg.asistencias.v[f][c] : <<c, a>> \in RosterPairs(arg)

\* C19 witness: a person who had a record was removed: the date and the
\* class are still keys of the log, the person's record is gone, and another
\* person's record is kept.
C19_Witness ==
    /\ ret.op = "removeAlumno"
    /\ ret.had
    /\ <<ret.classId, ret.alumnoId>> \notin RosterPairs(arg)
    /\ FechasConRegistro(arg.asistencias.v, ret.classId, ret.alumnoId) = {}
    /\ \E f \in DOMAIN arg.asistencias.v :
          \E c \in DOMAIN arg.asistencias.v[f] : DOMAIN arg.asistencias.v[f][c] # {}

-----------------------------------------------------------------------------
(* normalizePhone on its own, under SpecPhone: a text is a string value    *)
(* whose field chars is the sequence of its characters.                    *)

Digitos == {"5", "8"}
TelChars == Digitos \cup {"+", " ", "-"}
Texto(cs) == [t |-> "string", chars |-> cs]

\* t || ""
OrEmpty(t) == IF t \in {Undefined, Null} THEN <<>> ELSE t.chars

\* [^+\d]: the characters the replace removes
Removed(ch) == ch \notin Digitos \cup {"+"}

\* (t || "").replace(/[^+\d]/g, "")
normalizePhone(t) == SelectSeq(OrEmpty(t), LAMBDA ch : ~Removed(ch))

InitPhone ==
    /\ StoreIdle
    /\ now = 1
    /\ \/ arg \in {Undefined, Null}
       \/ \E n \in 0..MaxTel : \E cs \in [1..n -> TelChars] : arg = Texto(cs)
    /\ ret = NoCall

\* normalizePhone(arg)
CallNormalizePhone ==
    /\ ret = NoCall
    /\ ret' = [op |-> "normalizePhone", out |-> normalizePhone(arg)]
    /\ UNCHANGED <<storeVars, now, arg>>

NextPhone == CallNormalizePhone

SpecPhone == InitPhone /\ [][NextPhone]_vars

\* C20: for every input the result of the phone normalization consists of
\* digits only, optionally preceded by a single '+' at the first position.
C20_DigitsAndLeadingPlus ==
    ret.op = "normalizePhone" =>
        \A i \in DOMAIN ret.out :
            \/ ret.out[i] \in Digitos
            \/ i = 1 /\ ret.out[i] = "+"

-----------------------------------------------------------------------------
(* Claims about the store, under Spec *)

\* A step in which the startup effect ends in success.
StartupSucceeds == fetch.st = "resp" /\ fetch'.st = "done" /\ sync' = "synced"

\* C3: when the remote fetch succeeds, the active document becomes whichever
\* of the normalized remote document and the normalized cached document has
\* the greater updatedAt.
C3_GreaterUpdatedAtWins ==
    [][StartupSucceeds =>
          LET remoteDoc == ensureStateShape(fetch.body, now')
              local == ensureStateShape(storage, now')
          IN /\ JsGreater(remoteDoc.updatedAt, local.updatedAt) => state' = remoteDoc
             /\ JsGreater(local.updatedAt, remoteDoc.updatedAt) => state' = local]_vars

\* C3 witness: the cache held the document saved at instant 1, the web app
\* the one saved at instant 2, and the remote one became the state.
C3_Witness ==
    /\ fetch.st = "done"
    /\ sync = "synced"
    /\ nmut = 0
    /\ state = RemoteSeed(2)
    /\ storage = RemoteSeed(2)

\* A step in which the startup fetch fails: the request fails, the response
\* is not 200, or the body is no document.
StartupFails ==
    /\ fetch'.st = "done"
    /\ \/ fetch.st = "sent"
       \/ fetch.st = "resp" /\ fetch.body \in MalformedBodies

\* C4: when the startup fetch fails in any way, a body that parses as JSON
\* but is no Document included, the state and the cache keep the local
\* document and the status becomes idle.
C4_FailedFetchKeepsLocal ==
    [][StartupFails => (state' = state /\ storage' = storage /\ sync' = "idle")]_vars

\* The two documents agree in everything but the server-assigned updatedAt.
SameContent(a, b) == [a EXCEPT !.updatedAt = Null] = [b EXCEPT !.updatedAt = Null]

\* No mutation is waiting to be pushed and every request has completed.
Quiescent ==
    /\ mode = "sheets"
    /\ fetch.st = "done"
    /\ timers = {}
    /\ posts = <<>>

\* C5 (under SpecPushesSucceed): once mutations have stopped and every push
\* issued has completed successfully, the web app stores the content of the
\* state, whatever the order in which overlapping pushes were handled.
C5_LastPushWins ==
    (Quiescent /\ lastPushed) => (remote # Null /\ SameContent(remote, state))

C13_StatusMachine ==
    [][/\ (mode = "sheets" /\ sync' # sync) =>
             <<sync, sync'>> \in {<<"idle", "syncing">>, <<"syncing", "synced">>,
                                  <<"syncing", "idle">>}
       /\ mode = "local" =>
             /\ sync = "local" /\ sync' = "local"
             /\ posts' = <<>>
             /\ fetch'.st = "none"]_vars

\* The startup effect succeeds on a first run: no mutation was made and the
\* cache holds the default document generated at mount, while the response
\* is a document with persons on its rosters.
FirstRunLoad ==
    /\ StartupSucceeds
    /\ nmut = 0
    /\ SameContent(storage, BaseState(0))
    /\ fetch.body \notin MalformedBodies
    /\ RosterPairs(fetch.body) # {}

\* C17: on a start with no local cache while the remote service holds a
\* document with data, a successful startup reconciliation leaves the remote
\* document as the state, and the default document generated for the missing
\* cache is never pushed over the remote data.
C17_FirstRunKeepsRemote ==
    [][/\ FirstRunLoad => state' = fetch.body
       /\ (nmut = 0 /\ remote # Null /\ RosterPairs(remote) # {}) =>
             ~SameContent(remote', BaseState(0))]_vars

\* C18: in remote mode, whenever the status is synced, no push timer is
\* pending and no push is in flight, the remote service stores the content of
\* the state.
C18_SyncedMeansRemoteCurrent ==
    (mode = "sheets" /\ sync = "synced" /\ timers = {} /\ posts = <<>>) =>
        (remote # Null /\ SameContent(remote, state))

\* C12: every mutation cancels the unfired push timer and schedules a new one,
\* so at most one timer is pending at any time; when the timer of a run of
\* mutations fires, its single push carries the document as it is after the
\* last mutation of the run and no timer stays pending.
C12_DebouncedPush ==
    [][/\ Cardinality(timers') <= 1
       /\ nmut' # nmut => timers' = {state'}
       /\ Len(posts') > Len(posts) =>
             /\ posts'[Len(posts')].body = state
             /\ timers' = {}]_vars

\* C12 witness: a run of three mutations was made and a single push, carrying
\* the document after the third, is in flight with no timer pending.
C12_Witness ==
    /\ nmut >= 3
    /\ Len(posts) = 1
    /\ posts[1].body = state
    /\ timers = {}
    /\ Listed("logos", "a1")
    /\ RegPresente(state.asistencias.v, 1, "logos", "a1")

====
